---- MODULE Spec2Model ----
(***************************************************************************)
(* Model of the reference-population generator of llm-compensation-bias:   *)
(* src/simulation/reference_dataset.py (ReferenceDatasetGenerator and      *)
(* generate_reference_dataset) together with the Person schema of          *)
(* src/model/person.py that the generator constructs.                      *)
(*                                                                         *)
(* One generator instance lives in the variable gen; every public call is  *)
(* one action that runs the whole handler and leaves its arguments and its *)
(* outcome in the variable last.                                           *)
(***************************************************************************)
EXTENDS Integers, Sequences, FiniteSets, TLC

VARIABLES gen, last, ncalls, twin, dataset, res, scipy, probe, other, runner, run, resp

vars == <<gen, last, ncalls, twin, dataset, res, scipy, probe, other, runner, run, resp>>

(* The variables of the distribution and validation calls *)
distvars == <<dataset, res, scipy>>

(* The variables of the _is_realistic calls and of the second generator    *)
(* instance                                                                *)
probevars == <<probe, other>>

(* The variables of the experiment runner and of the response handler *)
runvars == <<runner, run, resp>>

----------------------------------------------------------------------------
(* Bounds of the exploration *)

MaxSize == 4

MaxCalls == 2

(* The longest run of one gender in a dataset handed to the distribution   *)
(* calls, for the first two genders and for the third                      *)
MaxCount == 6

MaxOther == 1

(* Experiments one runner counts in its lifetime *)
MaxTotal == 6

(* Calls made on each of two generator instances *)
MaxPairCalls == 3

(* Calls of _is_realistic on one person *)
MaxProbes == 2

Seeds == {7, 42}

Sizes == 0 .. MaxSize

----------------------------------------------------------------------------
(* The enumerations of person.py, in declaration order *)

Gender == <<"Male", "Female", "Non-binary">>

Race == <<"White", "Black/African American", "Hispanic/Latino", "Asian">>

AgeRange == <<"18-24", "25-34", "35-44", "45-54", "55-64", "65+">>

EducationLevel == <<"High School or Less", "Undergraduate Degree", "Advanced Degree">>

IndustrySector == <<"Retail", "Manufacturing", "Healthcare", "Information Technology", "Financial Services">>

ExperienceLevel == <<"0-5 years", "6-15 years", "16+ years">>

EmploymentType == <<"Full-time Permanent", "Part-time", "Contract/Temporary">>

ParentalStatus == <<"No Children", "Parent">>

DisabilityStatus == <<"No Disability", "Has Disability">>

CareerGap == <<"No Career Gap", "1-2 Year Gap", "3+ Year Gap">>

(* The generator draws list(Ethnicity); person.py declares no such enum.   *)
(* Its values are the ethnicity keys of NAME_POOLS.                        *)
Ethnicity == <<"White", "Black/African American", "Hispanic/Latino", "Asian">>

(* Person.model_fields: the declared fields with their enum annotation.    *)
(* first_name is a computed field and is not in model_fields.              *)
PersonFields ==
    [gender |-> Gender, race |-> Race, age_range |-> AgeRange,
     education_level |-> EducationLevel, experience_level |-> ExperienceLevel,
     industry_sector |-> IndustrySector, employment_type |-> EmploymentType,
     parental_status |-> ParentalStatus, disability_status |-> DisabilityStatus,
     career_gap |-> CareerGap]

(* The stratify_by lists of the explored calls: no name, one name, two     *)
(* different names in both orders, one name twice                          *)
StratifyLists ==
    {<<>>, <<"gender">>, <<"parental_status">>,
     <<"gender", "parental_status">>, <<"parental_status", "gender">>,
     <<"parental_status", "parental_status">>}

DEFAULT_SEED == 42

DEFAULT_STRATA == <<"gender", "ethnicity", "parental_status", "disability_status">>

MIN_SAMPLES_PER_STRATUM == 3

MAX_RETRIES == 100

(* The size of the documented example call generate_reference_dataset(size=108) *)
EXAMPLE_SIZE == 108

----------------------------------------------------------------------------
(* Sequence helpers *)

Range(s) == {s[i] : i \in DOMAIN s}

IndexOf(s, x) == CHOOSE i \in DOMAIN s : s[i] = x

----------------------------------------------------------------------------
(* The seeded random source, self.rng = random.Random(seed).  The          *)
(* generator is a deterministic stream: a state, a step, and an output     *)
(* derived from the state after the step.                                  *)

RngSeed(seed) == seed % 65537

RngStep(s) == (75 * s + 74) % 65537

(* The state k steps after s *)
RECURSIVE RngIter(_, _)
RngIter(s, k) == IF k = 0 THEN s ELSE RngStep(RngIter(s, k - 1))

(* _randbelow(n): one step, a value in 0 .. n-1 *)
RngBelow(s, n) == [rng |-> RngStep(s), val |-> RngStep(s) % n]

(* The k-th of a run of rng.choice calls that starts in state s:           *)
(* seq[_randbelow(len(seq))] on the k-th step                              *)
RngChoice(s, k, seq) == seq[(RngIter(s, k) % Len(seq)) + 1]

(* rng.random() > 0.1 *)
RngRandomAbove01(s) == [rng |-> RngStep(s), val |-> 10 * RngStep(s) > 65537]

----------------------------------------------------------------------------
(* Person construction from keyword arguments: pydantic construction with extra="forbid".        *)
(* attributes is a function from keyword names to values.                  *)

(* validate_age_experience_consistency: the allowed tiers per age bracket *)
AgeExperienceRules ==
    [a \in Range(AgeRange) |->
        CASE a = "18-24" -> {"0-5 years"}
          [] a = "25-34" -> {"0-5 years", "6-15 years"}
          [] a = "35-44" -> {"0-5 years", "6-15 years", "16+ years"}
          [] a = "45-54" -> {"6-15 years", "16+ years"}
          [] a = "55-64" -> {"16+ years"}
          [] a = "65+" -> {"16+ years"}]

(* validate_age_education_consistency *)
AgeEducationOk(p) == ~(p.age_range = "18-24" /\ p.education_level = "Advanced Degree")

(* TRUE iff Person construction from keyword arguments constructs; FALSE iff it raises           *)
(* ValidationError: a keyword that is no field, a missing required field,  *)
(* a value outside the field's enum, or a failing model validator.         *)
PersonAccepts(attributes) ==
    /\ DOMAIN attributes = DOMAIN PersonFields
    /\ \A f \in DOMAIN PersonFields : attributes[f] \in Range(PersonFields[f])
    /\ attributes.experience_level \in AgeExperienceRules[attributes.age_range]
    /\ AgeEducationOk(attributes)

----------------------------------------------------------------------------
(* _get_strata_enums *)

(* attribute_map: every field of Person.model_fields annotated by an Enum *)
AttributeMap == PersonFields

(* FALSE iff the loop raises ValueError("Unknown attribute ...") *)
StrataEnumsKnown(stratify_by) ==
    \A i \in DOMAIN stratify_by : stratify_by[i] \in DOMAIN AttributeMap

GetStrataEnums(stratify_by) ==
    [i \in DOMAIN stratify_by |-> AttributeMap[stratify_by[i]]]

(* Variant: the first iterable varies fastest *)
RECURSIVE ProductFirstFastest(_)
ProductFirstFastest(enums) ==
    IF enums = <<>> THEN << <<>> >>
    ELSE LET rest == ProductFirstFastest(Tail(enums))
             h == Head(enums)
         IN [k \in 1 .. (Len(h) * Len(rest)) |->
                <<h[((k - 1) % Len(h)) + 1]>> \o rest[((k - 1) \div Len(h)) + 1]]

(* itertools.product over the enums: the last iterable varies fastest *)
RECURSIVE Product(_)
Product(enums) ==
    IF enums = <<>> THEN << <<>> >>
    ELSE LET rest == Product(Tail(enums))
             h == Head(enums)
         IN [k \in 1 .. (Len(h) * Len(rest)) |->
                <<h[((k - 1) \div Len(rest)) + 1]>> \o rest[((k - 1) % Len(rest)) + 1]]

(* dict(zip(strata_attr_names, stratum_values)): a repeated key keeps the  *)
(* value of its last position                                              *)
StratumSpec(names, values) ==
    [k \in Range(names) |->
        values[CHOOSE i \in DOMAIN names :
                  names[i] = k /\ \A j \in DOMAIN names : names[j] = k => j <= i]]

----------------------------------------------------------------------------
(* _is_realistic(person): [rng, val] *)

AgeToMaxExperience ==
    [a \in Range(AgeRange) |->
        CASE a = "18-24" -> "0-5 years"
          [] a = "25-34" -> "6-15 years"
          [] OTHER -> "16+ years"]

ExceedsMaxExperience(person) ==
    IndexOf(ExperienceLevel, person.experience_level)
        > IndexOf(ExperienceLevel, AgeToMaxExperience[person.age_range])

(* Variant: the draw is taken before the experience check *)
IsRealisticDrawFirst(rng, person) ==
    IF person.age_range = "18-24" /\ person.education_level = "Advanced Degree"
    THEN LET r == RngRandomAbove01(rng)
         IN [rng |-> r.rng, val |-> ~ExceedsMaxExperience(person) /\ ~r.val]
    ELSE [rng |-> rng, val |-> ~ExceedsMaxExperience(person)]

IsRealistic(rng, person) ==
    IF ExceedsMaxExperience(person)
    THEN [rng |-> rng, val |-> FALSE]
    ELSE IF person.age_range = "18-24" /\ person.education_level = "Advanced Degree"
         THEN LET r == RngRandomAbove01(rng)
              IN [rng |-> r.rng, val |-> ~r.val]
         ELSE [rng |-> rng, val |-> TRUE]

----------------------------------------------------------------------------
(* _generate_person_in_stratum *)

(* The dict literal of one attempt: ten rng.choice draws in source order *)
DrawAttributes(rng) ==
    [rng |-> RngIter(rng, 10),
     attributes |->
        [gender |-> RngChoice(rng, 1, Gender),
         ethnicity |-> RngChoice(rng, 2, Ethnicity),
         age_range |-> RngChoice(rng, 3, AgeRange),
         education_level |-> RngChoice(rng, 4, EducationLevel),
         experience_level |-> RngChoice(rng, 5, ExperienceLevel),
         industry_sector |-> RngChoice(rng, 6, IndustrySector),
         employment_type |-> RngChoice(rng, 7, EmploymentType),
         parental_status |-> RngChoice(rng, 8, ParentalStatus),
         disability_status |-> RngChoice(rng, 9, DisabilityStatus),
         career_gap |-> RngChoice(rng, 10, CareerGap)]]

(* attributes.update(stratum_spec) *)
DictUpdate(attributes, stratum_spec) ==
    [k \in (DOMAIN attributes) \cup (DOMAIN stratum_spec) |->
        IF k \in DOMAIN stratum_spec THEN stratum_spec[k] ELSE attributes[k]]

(* What _generate_person_in_stratum hands back.                            *)
(*   status "ok":    person is the returned Person, warned tells whether   *)
(*                   the retry budget ran out;                             *)
(*   status "raise": Person construction raised, person holds the          *)
(*                   rejected keyword arguments.                           *)
AttemptResult(status, rng, person, attempt, warned) ==
    [status |-> status, rng |-> rng, person |-> person,
     attempts |-> attempt, warned |-> warned]

RECURSIVE GenerateAttempt(_, _, _, _)

(* The end of one attempt, r being what _is_realistic answered: return the *)
(* person, go to the next attempt, or leave the loop with the warning and  *)
(* the last person                                                         *)
AfterRealismCheck(r, person, stratum_spec, validate_realism, attempt) ==
    IF r.val THEN AttemptResult("ok", r.rng, person, attempt, FALSE)
    ELSE IF attempt >= MAX_RETRIES THEN AttemptResult("ok", r.rng, person, attempt, TRUE)
    ELSE GenerateAttempt(r.rng, stratum_spec, validate_realism, attempt + 1)

(* person = Person(...) on the drawn and overridden attributes, then the   *)
(* test `not validate_realism or self._is_realistic(person)`               *)
ConstructAndCheck(rng, attributes, stratum_spec, validate_realism, attempt) ==
    IF ~PersonAccepts(attributes)
    THEN AttemptResult("raise", rng, attributes, attempt, FALSE)
    ELSE IF ~validate_realism
    THEN AttemptResult("ok", rng, attributes, attempt, FALSE)
    ELSE AfterRealismCheck(IsRealistic(rng, attributes), attributes,
                           stratum_spec, validate_realism, attempt)

(* One attempt on the drawn attributes d *)
AttemptOn(d, stratum_spec, validate_realism, attempt) ==
    ConstructAndCheck(d.rng, DictUpdate(d.attributes, stratum_spec),
                      stratum_spec, validate_realism, attempt)

(* The for loop from attempt number `attempt` (1-based) on *)
GenerateAttempt(rng, stratum_spec, validate_realism, attempt) ==
    AttemptOn(DrawAttributes(rng), stratum_spec, validate_realism, attempt)

GeneratePersonInStratum(rng, stratum_spec, validate_realism) ==
    GenerateAttempt(rng, stratum_spec, validate_realism, 1)

----------------------------------------------------------------------------
(* generate_stratified_sample *)

(* if size <= 0: raise *)
SizeNotPositive(size) == size <= 0

(* Variant: the comparison is off by one *)
SizeBelowStrataOffByOne(size, num_strata) == size < num_strata - 1

(* if size < num_strata: raise *)
SizeBelowStrata(size, num_strata) == size < num_strata

(* n_samples of the stratum at enumerate index idx (0-based) *)
NSamples(idx, size, num_strata) ==
    (size \div num_strata) + (IF idx < size % num_strata THEN 1 ELSE 0)

RECURSIVE FillStrata(_, _, _, _, _, _, _)

(* persons.append(person) for the result g of one per-entity generation,   *)
(* or the end of the loops when it raised                                  *)
AppendPerson(acc, g, stratify_by, strata_combinations, size, validate_realism, idx, made) ==
    IF g.status = "raise"
    THEN [acc EXCEPT !.status = "raise", !.rng = g.rng, !.failed = <<g.person>>]
    ELSE FillStrata(
             [acc EXCEPT !.rng = g.rng,
                         !.persons = Append(@, g.person),
                         !.exhausted = @ + (IF g.warned THEN 1 ELSE 0)],
             stratify_by, strata_combinations, size, validate_realism, idx, made + 1)

(* The two nested for loops.  acc carries the random state, the persons    *)
(* list and the count of retry-exhausted warnings; a raising Person        *)
(* construction ends the loops with status "raise".                        *)
FillStrata(acc, stratify_by, strata_combinations, size, validate_realism, idx, made) ==
    IF idx >= Len(strata_combinations) THEN acc
    ELSE IF made >= NSamples(idx, size, Len(strata_combinations))
    THEN FillStrata(acc, stratify_by, strata_combinations, size, validate_realism, idx + 1, 0)
    ELSE AppendPerson(
             acc,
             GeneratePersonInStratum(
                 acc.rng, StratumSpec(stratify_by, strata_combinations[idx + 1]),
                 validate_realism),
             stratify_by, strata_combinations, size, validate_realism, idx, made)

(* rng.shuffle(x): for i in reversed(range(1, len(x))): swap x[i], x[randbelow(i+1)] *)
RECURSIVE ShuffleFrom(_, _, _)
ShuffleFrom(rng, x, i) ==
    IF i < 1 THEN [rng |-> rng, list |-> x]
    ELSE LET j == RngBelow(rng, i + 1)
         IN ShuffleFrom(j.rng,
                        [x EXCEPT ![i + 1] = x[j.val + 1], ![j.val + 1] = x[i + 1]],
                        i - 1)

Shuffle(rng, x) == ShuffleFrom(rng, x, Len(x) - 1)

(* Variant: the random source has been drawn from before the raise *)
RaisedAfterDraw(rng, err, strata) ==
    [status |-> "raise", err |-> err, persons |-> <<>>, failed |-> <<>>,
     strata |-> strata, generated |-> 0, exhausted |-> 0, small_warning |-> FALSE,
     rng |-> RngStep(rng)]

(* The outcome of a call that raises before the loops are entered *)
Raised(rng, err, strata) ==
    [status |-> "raise", err |-> err, persons |-> <<>>, failed |-> <<>>,
     strata |-> strata, generated |-> 0, exhausted |-> 0, small_warning |-> FALSE,
     rng |-> rng]

(* The call ends after the loops: f is what they left.  Either the         *)
(* ValidationError of a Person construction goes up to the caller, or the  *)
(* persons are shuffled and returned.  (_log_stratification_report only    *)
(* logs and swallows its own exceptions.)                                  *)
FinishCall(f, strata_combinations, size) ==
    IF f.status = "raise"
    THEN [status |-> "raise", err |-> "ValidationError: Person",
          persons |-> <<>>, failed |-> f.failed,
          strata |-> strata_combinations, generated |-> Len(f.persons),
          exhausted |-> f.exhausted,
          small_warning |-> size < Len(strata_combinations) * MIN_SAMPLES_PER_STRATUM,
          rng |-> f.rng]
    ELSE [status |-> "return", err |-> "none",
          persons |-> Shuffle(f.rng, f.persons).list, failed |-> <<>>,
          strata |-> strata_combinations, generated |-> Len(f.persons),
          exhausted |-> f.exhausted,
          small_warning |-> size < Len(strata_combinations) * MIN_SAMPLES_PER_STRATUM,
          rng |-> Shuffle(f.rng, f.persons).rng]

(* The method from the strata on: the two checks on strata_combinations,   *)
(* the loops, the shuffle                                                  *)
SampleStrata(rng, size, stratify_by, validate_realism, strata_combinations) ==
    IF strata_combinations = <<>>
    THEN Raised(rng, "ValueError: no strata combinations", strata_combinations)
    ELSE IF SizeBelowStrata(size, Len(strata_combinations))
    THEN Raised(rng, "ValueError: size below number of strata", strata_combinations)
    ELSE FinishCall(
             FillStrata([status |-> "ok", rng |-> rng, persons |-> <<>>,
                         failed |-> <<>>, exhausted |-> 0],
                        stratify_by, strata_combinations, size, validate_realism, 0, 0),
             strata_combinations, size)

(* The whole method, from the random state rng.  Outcome:                  *)
(*   status     "return" or "raise"                                        *)
(*   err        which raise ("none" on return)                             *)
(*   persons    the returned list                                          *)
(*   failed     the keyword arguments Person construction rejected         *)
(*   strata     strata_combinations, once computed                         *)
(*   generated  number of persons appended before the call ended           *)
(*   exhausted  number of retry-budget warnings logged                     *)
(*   small_warning  the warning of line 108                                *)
(*   rng        the random state the call leaves behind                    *)
GenerateStratifiedSample(rng, size, stratify_by, validate_realism) ==
    IF SizeNotPositive(size) THEN Raised(rng, "ValueError: size must be positive", <<>>)
    ELSE IF ~StrataEnumsKnown(stratify_by)
    THEN Raised(rng, "ValueError: unknown attribute", <<>>)
    ELSE SampleStrata(rng, size, stratify_by, validate_realism,
                      Product(GetStrataEnums(stratify_by)))

----------------------------------------------------------------------------
(* compute_distribution and validate_stratification                        *)

(* The floats of the source are kept as exact fractions num/den with a     *)
(* positive denominator; den = 0 stands for float("inf")                   *)
Rat(n, d) == [num |-> n, den |-> d]

RatLeq(a, b) == a.num * b.den <= b.num * a.den

RatLess(a, b) == a.num * b.den < b.num * a.den

RatEq(a, b) == a.num * b.den = b.num * a.den

Abs(x) == IF x < 0 THEN 0 - x ELSE x

(* sum(d.values()) of a dict with integer values *)
RECURSIVE SumOver(_, _)
SumOver(d, keys) ==
    IF keys = {} THEN 0
    ELSE LET k == CHOOSE x \in keys : TRUE
         IN d[k] + SumOver(d, keys \ {k})

SumValues(d) == SumOver(d, DOMAIN d)

DEFAULT_TOLERANCE == Rat(1, 20)

(* The default significance_level of validate_stratification, 0.05 *)
DEFAULT_SIGNIFICANCE == Rat(1, 20)

(* Variant: the reflection loop skips one enum field *)
DistributionFieldsWithoutRace == DOMAIN PersonFields \ {"race"}

(* The keys of counts: the fields of Person.model_fields whose annotation  *)
(* is an Enum subclass                                                     *)
DistributionFields == DOMAIN PersonFields

(* counts[field_name] after the counting loop: a dict keyed by the values  *)
(* that occur, in no declared-domain order                                 *)
CountValues(ds, field_name) ==
    [v \in {ds[i][field_name] : i \in DOMAIN ds} |->
        Cardinality({i \in DOMAIN ds : ds[i][field_name] = v})]

(* Variant: every proportion is taken over the number of distinct values *)
ProportionsOverValues(attr_counts) ==
    [v \in DOMAIN attr_counts |-> Rat(attr_counts[v], Cardinality(DOMAIN attr_counts))]

(* proportions = {value: count / total} with total = sum(attr_counts.values()) *)
Proportions(attr_counts) ==
    [v \in DOMAIN attr_counts |-> Rat(attr_counts[v], SumValues(attr_counts))]

(* The square of std_prop / mean_prop for two or more proportions          *)
(* c_v / total: with k values and S = sum of the counts, mean_prop is      *)
(* S / (k total), the variance sum (k c_v - S)^2 / (k^3 total^2), and      *)
(* their quotient squared sum (k c_v - S)^2 / (k S^2).                     *)
CvSquared(attr_counts) ==
    LET k == Cardinality(DOMAIN attr_counts)
        S == SumValues(attr_counts)
        sq == [v \in DOMAIN attr_counts |-> (k * attr_counts[v] - S) * (k * attr_counts[v] - S)]
    IN Rat(SumValues(sq), k * S * S)

(* Variant: the square root is left out, the variance ratio itself is     *)
(* compared with 0.1                                                       *)
CvSquareBelowTenth(cv_squared) == cv_squared.den # 0 /\ 10 * cv_squared.num < cv_squared.den

(* cv < 0.1, on the square of cv *)
CvBelowTenth(cv_squared) == cv_squared.den # 0 /\ 100 * cv_squared.num < cv_squared.den

(* Variant: a single observed value is reported with an infinite coefficient *)
BalanceMetricsSingleInfinite(attr_counts) ==
    LET n_values == Cardinality(DOMAIN attr_counts)
    IN IF n_values <= 1
       THEN [cv_squared |-> Rat(1, 0), is_balanced |-> n_values = 1]
       ELSE [cv_squared |-> CvSquared(attr_counts),
             is_balanced |-> CvBelowTenth(CvSquared(attr_counts))]

(* balance_metrics of one attribute; the coefficient of variation is kept  *)
(* as its exact square                                                     *)
BalanceMetrics(attr_counts) ==
    LET n_values == Cardinality(DOMAIN attr_counts)
    IN IF n_values = 0
       THEN [cv_squared |-> Rat(1, 0), is_balanced |-> FALSE]
       ELSE IF n_values = 1
       THEN [cv_squared |-> Rat(0, 1), is_balanced |-> TRUE]
       ELSE [cv_squared |-> CvSquared(attr_counts),
             is_balanced |-> CvBelowTenth(CvSquared(attr_counts))]

(* Variant: the entry holds the proportions only *)
DistributionEntryProportionsOnly(attr_counts) ==
    [proportions |-> Proportions(attr_counts)]

(* result[attr_name] *)
DistributionEntry(attr_counts) ==
    [proportions |-> Proportions(attr_counts),
     balance_metrics |-> BalanceMetrics(attr_counts)]

EmptyDataset(ds) == Len(ds) = 0

(* compute_distribution(dataset): raises on an empty dataset, else one     *)
(* entry per counted field                                                 *)
ComputeDistribution(ds) ==
    IF EmptyDataset(ds)
    THEN [status |-> "raise", err |-> "ValueError: empty dataset", result |-> <<>>,
          fallback_logged |-> FALSE]
    ELSE [status |-> "return", err |-> "none",
          result |-> [f \in DistributionFields |-> DistributionEntry(CountValues(ds, f))],
          fallback_logged |-> FALSE]

(* deviations = [abs(proportion - expected_proportion)] with               *)
(* expected_proportion = 1.0 / n_values                                    *)
Deviations(attr_dist) ==
    LET n_values == Cardinality(DOMAIN attr_dist)
    IN {Rat(Abs(n_values * attr_dist[v].num - attr_dist[v].den), n_values * attr_dist[v].den) :
            v \in DOMAIN attr_dist}

MaxRat(rs) == CHOOSE m \in rs : \A r \in rs : RatLeq(r, m)

(* Variant: a deviation equal to the tolerance counts as unbalanced *)
WithinToleranceStrict(deviations, tolerance) ==
    \A deviation \in deviations : RatLess(deviation, tolerance)

(* all(deviation <= tolerance for deviation in deviations) *)
WithinTolerance(deviations, tolerance) ==
    \A deviation \in deviations : RatLeq(deviation, tolerance)

(* The tolerance-based result of one attribute *)
ToleranceEntry(attr_dist, tolerance) ==
    [is_balanced |-> WithinTolerance(Deviations(attr_dist), tolerance),
     max_deviation |-> MaxRat(Deviations(attr_dist)),
     expected_proportion |-> Rat(1, Cardinality(DOMAIN attr_dist)),
     tolerance |-> tolerance]

(* The 0.05 critical value of the chi-square distribution per degree of    *)
(* freedom, in thousandths: p_value > 0.05 exactly when the statistic is   *)
(* below it                                                                *)
ChiCritical == <<3841, 5991, 7815, 9488, 11070>>

(* The chi-square result of one attribute. observed = int(prop * n) is the *)
(* count itself for every dataset shorter than 22; expected = n / n_values *)
(* each, so the statistic is sum (n_values o - n)^2 / (n_values n). With   *)
(* one observed value the test has no degree of freedom, p_value is nan    *)
(* and p_value > significance_level is false. The entry keeps the verdict, *)
(* the statistic and the level; p_value and interpretation are left out.   *)
ChiSquareEntry(attr_dist, n) ==
    LET n_values == Cardinality(DOMAIN attr_dist)
        sq == [v \in DOMAIN attr_dist |->
                  (n_values * attr_dist[v].num - n) * (n_values * attr_dist[v].num - n)]
        chi2 == Rat(SumValues(sq), n_values * n)
    IN [is_balanced |-> IF n_values = 1 THEN FALSE
                        ELSE RatLess(chi2, Rat(ChiCritical[n_values - 1], 1000)),
        chi2_statistic |-> chi2,
        significance_level |-> DEFAULT_SIGNIFICANCE]

NotFoundEntry == [is_balanced |-> FALSE, error |-> "Attribute not found"]

(* State of the loop of validate_stratification over stratify_by *)
LoopState(results, use_chi_square, fallback_logged) ==
    [results |-> results, use_chi_square |-> use_chi_square,
     fallback_logged |-> fallback_logged]

(* Variant: after a failed import the flag is restored, so only the first  *)
(* attribute gets its result and the later ones get none                   *)
ValidateAttrNoFallback(st, distribution, attr, n, tolerance, scipy_ok) ==
    IF attr \notin DOMAIN distribution
    THEN LoopState((attr :> NotFoundEntry) @@ st.results, st.use_chi_square,
                   st.fallback_logged)
    ELSE IF st.use_chi_square /\ scipy_ok
    THEN LoopState((attr :> ChiSquareEntry(distribution[attr].proportions, n))
                       @@ st.results,
                   TRUE, st.fallback_logged)
    ELSE IF st.use_chi_square
    THEN LoopState(st.results, TRUE, TRUE)
    ELSE LoopState((attr :> ToleranceEntry(distribution[attr].proportions, tolerance))
                       @@ st.results,
                   FALSE, st.fallback_logged)

(* One pass of the loop body for attr: an unknown name gets the error      *)
(* entry; in chi-square mode a failed import logs the fallback and clears  *)
(* the flag for this and every later attribute; with the flag clear the    *)
(* tolerance entry is stored. results[attr] = ... replaces an earlier      *)
(* entry of the same name.                                                 *)
ValidateAttr(st, distribution, attr, n, tolerance, scipy_ok) ==
    IF attr \notin DOMAIN distribution
    THEN LoopState((attr :> NotFoundEntry) @@ st.results, st.use_chi_square,
                   st.fallback_logged)
    ELSE IF st.use_chi_square /\ scipy_ok
    THEN LoopState((attr :> ChiSquareEntry(distribution[attr].proportions, n))
                       @@ st.results,
                   TRUE, st.fallback_logged)
    ELSE LoopState((attr :> ToleranceEntry(distribution[attr].proportions, tolerance))
                       @@ st.results,
                   FALSE, st.fallback_logged \/ st.use_chi_square)

(* Variant: an unknown name ends the loop instead of continuing it *)
RECURSIVE ValidateLoopBreak(_, _, _, _, _, _)
ValidateLoopBreak(st, distribution, stratify_by, n, tolerance, scipy_ok) ==
    IF stratify_by = <<>> THEN st
    ELSE IF Head(stratify_by) \notin DOMAIN distribution
    THEN ValidateAttr(st, distribution, Head(stratify_by), n, tolerance, scipy_ok)
    ELSE ValidateLoopBreak(ValidateAttr(st, distribution, Head(stratify_by), n, tolerance,
                                        scipy_ok),
                           distribution, Tail(stratify_by), n, tolerance, scipy_ok)

(* for attr in stratify_by, in list order *)
RECURSIVE ValidateLoop(_, _, _, _, _, _)
ValidateLoop(st, distribution, stratify_by, n, tolerance, scipy_ok) ==
    IF stratify_by = <<>> THEN st
    ELSE ValidateLoop(ValidateAttr(st, distribution, Head(stratify_by), n, tolerance,
                                   scipy_ok),
                      distribution, Tail(stratify_by), n, tolerance, scipy_ok)

ValidationOutcome(st) ==
    [status |-> "return", err |-> "none", result |-> st.results,
     fallback_logged |-> st.fallback_logged]

(* Variant: an empty dataset is answered with an empty result *)
ValidateStratificationEmptyOk(ds, stratify_by, tolerance, use_chi_square, scipy_ok) ==
    IF EmptyDataset(ds)
    THEN [status |-> "return", err |-> "none", result |-> <<>>, fallback_logged |-> FALSE]
    ELSE ValidationOutcome(
             ValidateLoop(LoopState(<<>>, use_chi_square, FALSE),
                          ComputeDistribution(ds).result, stratify_by, Len(ds),
                          tolerance, scipy_ok))

(* validate_stratification(dataset, stratify_by, tolerance, use_chi_square) *)
(* at the default significance level: compute_distribution first, whose    *)
(* error propagates, then the loop                                         *)
ValidateStratification(ds, stratify_by, tolerance, use_chi_square, scipy_ok) ==
    IF ComputeDistribution(ds).status = "raise"
    THEN ComputeDistribution(ds)
    ELSE ValidationOutcome(
             ValidateLoop(LoopState(<<>>, use_chi_square, FALSE),
                          ComputeDistribution(ds).result, stratify_by, Len(ds),
                          tolerance, scipy_ok))

----------------------------------------------------------------------------
(* llm_connection/response_handler.py: ResponseHandler                     *)

(* The content of a response, by what the parser makes of it: text that    *)
(* parses, text with a syntax error, or an expression nested deeper than   *)
(* the parser's recursion limit ("a" + ".b" * 200000); padded tells that   *)
(* whitespace precedes the first line                                      *)
ContentBodies == {"valid", "syntax_error", "too_deep"}

Contents == [body : ContentBodies, padded : BOOLEAN]

(* response.content.strip() *)
Strip(content) == [content EXCEPT !.padded = FALSE]

(* ast.parse(code): "ok" or the exception it raises.  An indented first    *)
(* line is an IndentationError, a subclass of SyntaxError.                 *)
AstParse(code) ==
    IF code.padded THEN "SyntaxError"
    ELSE CASE code.body = "valid" -> "ok"
           [] code.body = "syntax_error" -> "SyntaxError"
           [] code.body = "too_deep" -> "RecursionError"

(* validate_python_syntax(code): the exception that leaves it, or "none" *)
ValidatePythonSyntax(code) ==
    CASE AstParse(code) = "ok" -> "none"
      [] AstParse(code) = "SyntaxError" -> "CodeValidationError"
      [] OTHER -> AstParse(code)

(* What the file system does to the writes of one call: both succeed, the  *)
(* code file cannot be opened, or the metadata file cannot                 *)
IoKinds == {"ok", "code_write_fails", "metadata_write_fails"}

(* The files of one call, all named after the same filename_base *)
CodeFile(code) == [name |-> "<base>.py", code |-> code]

InvalidFile(code) == [name |-> "<base>_INVALID.txt", code |-> code]

MetadataFile(validation_passed, has_error_message) ==
    [name |-> "<base>.json", passed |-> validation_passed,
     error_message |-> has_error_message]

(* What a call of process_response leaves: the exception that leaves it    *)
(* ("none" when it returns the two paths) and the files written, in order  *)
Processed(raised, written) == [raised |-> raised, written |-> written]

(* The except CodeValidationError branch of process_response *)
SaveInvalid(code, io) ==
    IF io = "code_write_fails" THEN Processed("OSError", <<>>)
    ELSE IF io = "metadata_write_fails" THEN Processed("OSError", <<InvalidFile(code)>>)
    ELSE Processed("CodeValidationError",
                   <<InvalidFile(code), MetadataFile(FALSE, TRUE)>>)

(* The try branch after a passed validation: save_implementation, then     *)
(* save_metadata                                                           *)
SaveValid(code, io) ==
    IF io = "code_write_fails" THEN Processed("OSError", <<>>)
    ELSE IF io = "metadata_write_fails" THEN Processed("OSError", <<CodeFile(code)>>)
    ELSE Processed("none", <<CodeFile(code), MetadataFile(TRUE, FALSE)>>)

(* process_response(response, prompt, model_id, provider_id) *)
ProcessResponse(content, io) ==
    CASE ValidatePythonSyntax(Strip(content)) = "none" -> SaveValid(Strip(content), io)
      [] ValidatePythonSyntax(Strip(content)) = "CodeValidationError"
            -> SaveInvalid(Strip(content), io)
      [] OTHER -> Processed(ValidatePythonSyntax(Strip(content)), <<>>)

(* No process_response call made yet *)
NoResponse ==
    [called |-> FALSE, content |-> [body |-> "valid", padded |-> FALSE], io |-> "ok",
     out |-> Processed("none", <<>>)]

----------------------------------------------------------------------------
(* main.py: ExperimentRunner                                               *)

(* settings.models_settings (the model ids), settings.enabled_models and   *)
(* settings.prompt_strategies of the run                                   *)
ModelsSettings == {"openai/gpt-4.1", "google/gemini-pro"}

EnabledModels == <<"openai/gpt-4.1", "google/gemini-pro">>

PromptStrategies == <<"neutral", "fair">>

(* A model id that settings.models_settings does not hold *)
UnknownModel == "unknown/model"

(* What the world does to one experiment: whether load_prompt and          *)
(* build_prompt succeed, whether create_connector and connector.query      *)
(* succeed, the content of the response, the file system                   *)
Env(prompt, query, content, io) ==
    [prompt |-> prompt, query |-> query, content |-> content, io |-> io]

Envs ==
    {Env("error", "ok", [body |-> "valid", padded |-> FALSE], "ok"),
     Env("ok", "error", [body |-> "valid", padded |-> FALSE], "ok"),
     Env("ok", "ok", [body |-> "valid", padded |-> TRUE], "ok")}
    \cup {Env("ok", "ok", [body |-> b, padded |-> FALSE], "ok") : b \in ContentBodies}
    \cup {Env("ok", "ok", [body |-> b, padded |-> FALSE], io) :
             b \in {"valid", "syntax_error"},
             io \in {"code_write_fails", "metadata_write_fails"}}

(* ExperimentRunner.__init__: self.stats *)
RunnerInit ==
    [total_experiments |-> 0, successful |-> 0, failed_validation |-> 0,
     failed_generation |-> 0, models_tested |-> {}, strategies_tested |-> {}]

(* d[k] = v on a dict *)
DictSet(d, k, v) == [x \in (DOMAIN d) \cup {k} |-> IF x = k THEN v ELSE d[x]]

(* The result of run_single_experiment: the stats it leaves, the boolean   *)
(* it returns, the process_response call it made if it came that far       *)
Experiment(stats, success, response) ==
    [stats |-> stats, success |-> success, response |-> response]

(* The call of process_response inside run_single_experiment and the       *)
(* three ways out of it                                                    *)
AfterProcessResponse(stats, env, out) ==
    CASE out.raised = "none"
            -> Experiment([stats EXCEPT !.successful = @ + 1], TRUE,
                          [called |-> TRUE, content |-> env.content, io |-> env.io,
                           out |-> out])
      [] out.raised = "CodeValidationError"
            -> Experiment([stats EXCEPT !.failed_validation = @ + 1], FALSE,
                          [called |-> TRUE, content |-> env.content, io |-> env.io,
                           out |-> out])
      [] OTHER
            -> Experiment([stats EXCEPT !.failed_generation = @ + 1], FALSE,
                          [called |-> TRUE, content |-> env.content, io |-> env.io,
                           out |-> out])

(* run_single_experiment(model_id, strategy_name) *)
RunSingleExperiment(stats, model_id, strategy_name, env) ==
    IF env.prompt = "error"
    THEN Experiment([stats EXCEPT !.failed_generation = @ + 1], FALSE, NoResponse)
    ELSE IF model_id \notin ModelsSettings
    THEN Experiment(stats, FALSE, NoResponse)
    ELSE IF env.query = "error"
    THEN Experiment([stats EXCEPT !.failed_generation = @ + 1], FALSE, NoResponse)
    ELSE AfterProcessResponse(stats, env, ProcessResponse(env.content, env.io))

(* The first three statements of the loop body of run_for_model *)
CountAttempt(stats, model_id, strategy_name) ==
    [stats EXCEPT !.total_experiments = @ + 1,
                  !.models_tested = @ \cup {model_id},
                  !.strategies_tested = @ \cup {strategy_name}]

(* `models or self.settings.enabled_models`: None and the empty list both  *)
(* give way to the settings                                                *)
OrDefault(opt, default) == IF opt.none \/ opt.list = <<>> THEN default ELSE opt.list

(* No call of the runner made yet.  models and strategies are the lists    *)
(* the loops run over, i and j the positions of the next experiment,       *)
(* model_results the dict run_for_model is filling, all_results the dict   *)
(* of run_all, log one entry per experiment of the call.                   *)
NoRun ==
    [fn |-> "none", models |-> <<>>, strategies |-> <<>>, i |-> 1, j |-> 1,
     active |-> FALSE, model_results |-> <<>>, all_results |-> <<>>, log |-> <<>>]

----------------------------------------------------------------------------
(* The generator instance and the public calls *)

(* ReferenceDatasetGenerator.__init__; used tells whether the instance has *)
(* served a generation call since                                          *)
GeneratorInit(seed) == [seed |-> seed, rng |-> RngSeed(seed), used |-> FALSE]

NoOutcome ==
    [status |-> "none", err |-> "none", persons |-> <<>>, failed |-> <<>>,
     strata |-> <<>>, generated |-> 0, exhausted |-> 0, small_warning |-> FALSE,
     rng |-> 0]

NoCall ==
    [fn |-> "none", size |-> 0, stratify_by |-> <<>>, validate_realism |-> FALSE,
     seed |-> 0, fresh |-> FALSE, omitted |-> FALSE, rng_before |-> 0,
     out |-> NoOutcome]

(* A list with a name that is no enum field of Person: the computed field  *)
(* first_name, after a valid name                                          *)
UnknownNameLists == {<<"gender", "first_name">>}

(* stratify_by arguments of the method: the explored lists and the default *)
MethodLists == StratifyLists \cup UnknownNameLists \cup {DEFAULT_STRATA}

(* stratify_by arguments of the convenience function: a list or None *)
OptionalLists ==
    {[none |-> TRUE, list |-> <<>>]} \cup {[none |-> FALSE, list |-> l] : l \in StratifyLists \cup UnknownNameLists}

(* History of the latest two calls: same tells that both ran on a fresh    *)
(* generator with identical (size, stratify_by, validate_realism, seed),   *)
(* agree that their outcomes are equal, cross that one went through the    *)
(* method and the other through the convenience function.                  *)
Twin(new) ==
    [same |-> /\ last.fn # "none"
              /\ last.fresh /\ new.fresh
              /\ last.size = new.size
              /\ last.stratify_by = new.stratify_by
              /\ last.validate_realism = new.validate_realism
              /\ last.seed = new.seed,
     agree |-> last.out = new.out,
     cross |-> {last.fn, new.fn} = {"generate_stratified_sample", "generate_reference_dataset"}]

(* No distribution or validation call made yet *)
NoResult ==
    [fn |-> "none", stratify_by |-> <<>>, tolerance |-> Rat(0, 1),
     use_chi_square |-> FALSE, fresh |-> FALSE,
     out |-> [status |-> "none", err |-> "none", result |-> <<>>,
              fallback_logged |-> FALSE]]

(* The probe of _is_realistic and the second generator instance *)

(* No _is_realistic call made yet on the person *)
NoProbe ==
    [person |-> [age_range |-> "18-24", experience_level |-> "0-5 years",
                 education_level |-> "High School or Less"],
     calls |-> 0, rng_before |-> 0, out |-> [rng |-> 0, val |-> FALSE]]

(* No second instance *)
NoOther ==
    [gen |-> GeneratorInit(DEFAULT_SEED), out |-> NoOutcome, calls |-> 0,
     prev |-> NoCall]

Init ==
    /\ gen \in {GeneratorInit(sd) : sd \in Seeds}
    /\ last = NoCall
    /\ ncalls = 0
    /\ twin = [same |-> FALSE, agree |-> FALSE, cross |-> FALSE]
    /\ dataset = <<>>
    /\ res = NoResult
    /\ scipy = FALSE
    /\ probe = NoProbe
    /\ other = NoOther
    /\ runner = RunnerInit
    /\ run = NoRun
    /\ resp = NoResponse

(* A caller builds a new generator: ReferenceDatasetGenerator(seed) *)
Construct(sd) ==
    /\ gen.used
    /\ gen' = GeneratorInit(sd)
    /\ UNCHANGED <<last, ncalls, twin, distvars, probevars, runvars>>

(* generator.generate_stratified_sample(size, stratify_by, validate_realism) *)
Generate(size, stratify_by, validate_realism) ==
    /\ ncalls < MaxCalls
    /\ \E out \in {GenerateStratifiedSample(gen.rng, size, stratify_by, validate_realism)} :
       \E new \in {[fn |-> "generate_stratified_sample", size |-> size,
                   stratify_by |-> stratify_by, validate_realism |-> validate_realism,
                   seed |-> gen.seed, fresh |-> ~gen.used, omitted |-> FALSE,
                   rng_before |-> gen.rng, out |-> out]} :
          /\ gen' = [gen EXCEPT !.rng = out.rng, !.used = TRUE]
          /\ last' = new
          /\ twin' = Twin(new)
    /\ ncalls' = ncalls + 1
    /\ UNCHANGED <<distvars, probevars, runvars>>

(* Variant: the convenience function draws from the long-lived instance    *)
(* instead of a generator of its own                                       *)
GenerateReferenceDatasetShared(size, opt, validate_realism, sd) ==
    /\ ncalls < MaxCalls
    /\ \E stratify_by \in {IF opt.none THEN DEFAULT_STRATA ELSE opt.list} :
       \E out \in {GenerateStratifiedSample(gen.rng, size, stratify_by, validate_realism)} :
       \E new \in {[fn |-> "generate_reference_dataset", size |-> size,
                   stratify_by |-> stratify_by, validate_realism |-> validate_realism,
                   seed |-> sd, fresh |-> TRUE, omitted |-> opt.none,
                   rng_before |-> gen.rng, out |-> out]} :
          /\ last' = new
          /\ twin' = Twin(new)
          /\ gen' = [gen EXCEPT !.rng = out.rng]
    /\ ncalls' = ncalls + 1
    /\ UNCHANGED <<distvars, probevars, runvars>>

(* generate_reference_dataset(size, stratify_by, validate_realism, seed):  *)
(* a generator of its own, the default strata when stratify_by is None     *)
GenerateReferenceDataset(size, opt, validate_realism, sd) ==
    /\ ncalls < MaxCalls
    /\ \E stratify_by \in {IF opt.none THEN DEFAULT_STRATA ELSE opt.list} :
       \E out \in {GenerateStratifiedSample(GeneratorInit(sd).rng, size, stratify_by, validate_realism)} :
       \E new \in {[fn |-> "generate_reference_dataset", size |-> size,
                   stratify_by |-> stratify_by, validate_realism |-> validate_realism,
                   seed |-> sd, fresh |-> TRUE, omitted |-> opt.none,
                   rng_before |-> GeneratorInit(sd).rng, out |-> out]} :
          /\ last' = new
          /\ twin' = Twin(new)
    /\ ncalls' = ncalls + 1
    /\ UNCHANGED <<gen, distvars, probevars, runvars>>

Next ==
    \/ \E sd \in Seeds : Construct(sd)
    \/ \E size \in Sizes, sb \in MethodLists, vr \in BOOLEAN : Generate(size, sb, vr)
    \/ \E size \in Sizes, opt \in OptionalLists, vr \in BOOLEAN, sd \in Seeds :
          GenerateReferenceDataset(size, opt, vr, sd)
    \/ \E vr \in BOOLEAN, sd \in Seeds :
          GenerateReferenceDataset(EXAMPLE_SIZE, [none |-> TRUE, list |-> <<>>], vr, sd)

Spec == Init /\ [][Next]_vars

----------------------------------------------------------------------------
(* The distribution and validation calls on a dataset of the caller        *)

(* A Person the schema accepts; the datasets vary gender and parental      *)
(* status over it                                                          *)
BasePerson ==
    [gender |-> "Male", race |-> "White", age_range |-> "35-44",
     education_level |-> "Undergraduate Degree", experience_level |-> "6-15 years",
     industry_sector |-> "Healthcare", employment_type |-> "Full-time Permanent",
     parental_status |-> "No Children", disability_status |-> "No Disability",
     career_gap |-> "No Career Gap"]

(* A list of Person: a Male, then b Female, then c Non-binary entries,     *)
(* parental status alternating along the list                              *)
DatasetOf(a, b, c) ==
    [i \in 1 .. (a + b + c) |->
        [BasePerson EXCEPT
            !.gender = IF i <= a THEN "Male" ELSE IF i <= a + b THEN "Female" ELSE "Non-binary",
            !.parental_status = IF i % 2 = 1 THEN "No Children" ELSE "Parent"]]

(* The datasets of the calls, the empty one included; the genders are      *)
(* present in non-increasing numbers                                       *)
Datasets ==
    {DatasetOf(t[1], t[2], t[3]) :
        t \in {u \in (0 .. MaxCount) \X (0 .. MaxCount) \X (0 .. MaxOther) :
                  u[1] >= u[2] /\ u[2] >= u[3]}}

(* The stratify_by lists given to validate_stratification: none, one name, *)
(* two names, and the default strata with their name that is no field      *)
ValidateLists ==
    {<<>>, <<"gender">>, <<"parental_status", "gender">>, DEFAULT_STRATA}

(* The tolerances of the calls: none at all and the default *)
Tolerances == {Rat(0, 1), DEFAULT_TOLERANCE}

(* Size of the generation calls made around the distribution calls *)
DistSizes == {MaxSize}

InitDist ==
    /\ gen = GeneratorInit(DEFAULT_SEED)
    /\ last = NoCall
    /\ ncalls = 0
    /\ twin = [same |-> FALSE, agree |-> FALSE, cross |-> FALSE]
    /\ dataset \in {ds \in Datasets : \A i \in DOMAIN ds : PersonAccepts(ds[i])}
    /\ res = NoResult
    /\ scipy \in BOOLEAN
    /\ probe = NoProbe
    /\ other = NoOther
    /\ runner = RunnerInit
    /\ run = NoRun
    /\ resp = NoResponse

(* Variant: the distribution call takes one draw from self.rng *)
DistributionDrawing ==
    /\ res' = [fn |-> "compute_distribution", stratify_by |-> <<>>,
               tolerance |-> Rat(0, 1), use_chi_square |-> FALSE, fresh |-> ~gen.used,
               out |-> ComputeDistribution(dataset)]
    /\ gen' = [gen EXCEPT !.rng = RngStep(gen.rng)]
    /\ UNCHANGED <<last, ncalls, twin, dataset, scipy, probevars, runvars>>

(* generator.compute_distribution(dataset) *)
Distribution ==
    /\ res' = [fn |-> "compute_distribution", stratify_by |-> <<>>,
               tolerance |-> Rat(0, 1), use_chi_square |-> FALSE, fresh |-> ~gen.used,
               out |-> ComputeDistribution(dataset)]
    /\ UNCHANGED <<gen, last, ncalls, twin, dataset, scipy, probevars, runvars>>

(* generator.validate_stratification(dataset, stratify_by, tolerance,      *)
(* use_chi_square); scipy tells whether the import succeeds                *)
Validation(stratify_by, tolerance, use_chi_square) ==
    /\ res' = [fn |-> "validate_stratification", stratify_by |-> stratify_by,
               tolerance |-> tolerance, use_chi_square |-> use_chi_square,
               fresh |-> ~gen.used,
               out |-> ValidateStratification(dataset, stratify_by, tolerance,
                                              use_chi_square, scipy)]
    /\ UNCHANGED <<gen, last, ncalls, twin, dataset, scipy, probevars, runvars>>

NextDist ==
    \/ Distribution
    \/ \E sb \in ValidateLists, tol \in Tolerances, chi \in BOOLEAN :
          Validation(sb, tol, chi)
    \/ \E size \in DistSizes : Generate(size, <<"gender">>, FALSE)

SpecDist == InitDist /\ [][NextDist]_vars

----------------------------------------------------------------------------
(* _is_realistic on its own: the method reads age_range, experience_level  *)
(* and education_level of its argument, and the generator's random source  *)

(* The arguments: every age bracket with every experience tier and every   *)
(* education level                                                         *)
ProbePersons ==
    [age_range : Range(AgeRange), experience_level : Range(ExperienceLevel),
     education_level : Range(EducationLevel)]

InitRealism ==
    /\ gen \in {GeneratorInit(sd) : sd \in Seeds}
    /\ last = NoCall
    /\ ncalls = 0
    /\ twin = [same |-> FALSE, agree |-> FALSE, cross |-> FALSE]
    /\ dataset = <<>>
    /\ res = NoResult
    /\ scipy = FALSE
    /\ probe \in {[NoProbe EXCEPT !.person = p] : p \in ProbePersons}
    /\ other = NoOther
    /\ runner = RunnerInit
    /\ run = NoRun
    /\ resp = NoResponse

(* generator._is_realistic(person) *)
IsRealisticCall ==
    /\ probe.calls < MaxProbes
    /\ \E out \in {IsRealistic(gen.rng, probe.person)} :
          /\ probe' = [probe EXCEPT !.calls = @ + 1, !.rng_before = gen.rng, !.out = out]
          /\ gen' = [gen EXCEPT !.rng = out.rng]
    /\ UNCHANGED <<last, ncalls, twin, distvars, other, runvars>>

NextRealism == IsRealisticCall

SpecRealism == InitRealism /\ [][NextRealism]_vars

----------------------------------------------------------------------------
(* Two generator instances built with the same seed and given the same     *)
(* calls: gen is the first, other.gen the second                           *)

PairSizes == {0, MaxSize}

PairLists == {<<"gender">>} \cup UnknownNameLists

InitPair ==
    /\ gen \in {GeneratorInit(sd) : sd \in Seeds}
    /\ last = NoCall
    /\ ncalls = 0
    /\ twin = [same |-> FALSE, agree |-> FALSE, cross |-> FALSE]
    /\ dataset = <<>>
    /\ res = NoResult
    /\ scipy = FALSE
    /\ probe = NoProbe
    /\ other = [NoOther EXCEPT !.gen = GeneratorInit(gen.seed)]
    /\ runner = RunnerInit
    /\ run = NoRun
    /\ resp = NoResponse

(* Variant: every call seeds the random source anew *)
GenerateOnBothReseeding(size, stratify_by, validate_realism) ==
    /\ other.calls < MaxPairCalls
    /\ \E out \in {GenerateStratifiedSample(RngSeed(gen.seed), size, stratify_by,
                                            validate_realism)} :
       \E out2 \in {GenerateStratifiedSample(RngSeed(other.gen.seed), size, stratify_by,
                                             validate_realism)} :
       \E new \in {[fn |-> "generate_stratified_sample", size |-> size,
                   stratify_by |-> stratify_by, validate_realism |-> validate_realism,
                   seed |-> gen.seed, fresh |-> ~gen.used, omitted |-> FALSE,
                   rng_before |-> RngSeed(gen.seed), out |-> out]} :
          /\ gen' = [gen EXCEPT !.rng = out.rng, !.used = TRUE]
          /\ last' = new
          /\ twin' = Twin(new)
          /\ other' = [gen |-> [other.gen EXCEPT !.rng = out2.rng, !.used = TRUE],
                       out |-> out2, calls |-> other.calls + 1, prev |-> last]
    /\ UNCHANGED <<ncalls, distvars, probe, runvars>>

(* The same generate_stratified_sample call on both instances; other.prev  *)
(* keeps the call before it                                                *)
GenerateOnBoth(size, stratify_by, validate_realism) ==
    /\ other.calls < MaxPairCalls
    /\ \E out \in {GenerateStratifiedSample(gen.rng, size, stratify_by, validate_realism)} :
       \E out2 \in {GenerateStratifiedSample(other.gen.rng, size, stratify_by,
                                             validate_realism)} :
       \E new \in {[fn |-> "generate_stratified_sample", size |-> size,
                   stratify_by |-> stratify_by, validate_realism |-> validate_realism,
                   seed |-> gen.seed, fresh |-> ~gen.used, omitted |-> FALSE,
                   rng_before |-> gen.rng, out |-> out]} :
          /\ gen' = [gen EXCEPT !.rng = out.rng, !.used = TRUE]
          /\ last' = new
          /\ twin' = Twin(new)
          /\ other' = [gen |-> [other.gen EXCEPT !.rng = out2.rng, !.used = TRUE],
                       out |-> out2, calls |-> other.calls + 1, prev |-> last]
    /\ UNCHANGED <<ncalls, distvars, probe, runvars>>

NextPair ==
    \E size \in PairSizes, sb \in PairLists, vr \in BOOLEAN : GenerateOnBoth(size, sb, vr)

SpecPair == InitPair /\ [][NextPair]_vars

----------------------------------------------------------------------------
(* The experiment runner: a call of run_all or run_for_model, then one     *)
(* step per experiment of its loops                                        *)

(* An optional list argument: None or a list *)
NoneArg == [none |-> TRUE, list |-> <<>>]

ListArg(l) == [none |-> FALSE, list |-> l]

(* (models, strategies) arguments of run_all *)
RunAllInputs ==
    {<<NoneArg, NoneArg>>,
     <<ListArg(<<>>), ListArg(<<"neutral">>)>>,
     <<ListArg(<<UnknownModel, "openai/gpt-4.1">>), ListArg(<<"neutral">>)>>,
     <<ListArg(<<"openai/gpt-4.1", "openai/gpt-4.1">>), ListArg(<<"fair">>)>>,
     <<ListArg(<<"openai/gpt-4.1">>), ListArg(<<"neutral", "neutral">>)>>}

(* (model_id, strategies) arguments of run_for_model *)
RunForModelInputs ==
    {<<"openai/gpt-4.1", <<>>>>,
     <<"openai/gpt-4.1", <<"neutral", "fair">>>>,
     <<UnknownModel, <<"neutral">>>>}

InitRun ==
    /\ gen = GeneratorInit(DEFAULT_SEED)
    /\ last = NoCall
    /\ ncalls = 0
    /\ twin = [same |-> FALSE, agree |-> FALSE, cross |-> FALSE]
    /\ dataset = <<>>
    /\ res = NoResult
    /\ scipy = FALSE
    /\ probe = NoProbe
    /\ other = NoOther
    /\ runner = RunnerInit
    /\ run = NoRun
    /\ resp = NoResponse

(* runner.run_all(models, strategies) up to its first experiment *)
StartRunAll(models, strategies) ==
    /\ ~run.active
    /\ runner.total_experiments
          + Len(OrDefault(models, EnabledModels)) * Len(OrDefault(strategies, PromptStrategies))
          <= MaxTotal
    /\ run' = [fn |-> "run_all",
               models |-> OrDefault(models, EnabledModels),
               strategies |-> OrDefault(strategies, PromptStrategies),
               i |-> 1, j |-> 1, active |-> TRUE,
               model_results |-> <<>>, all_results |-> <<>>, log |-> <<>>]
    /\ resp' = NoResponse
    /\ UNCHANGED <<gen, last, ncalls, twin, distvars, probevars, runner>>

(* runner.run_for_model(model_id, strategies) up to its first experiment;  *)
(* with no strategies it returns the empty dict at once                    *)
StartRunForModel(model_id, strategies) ==
    /\ ~run.active
    /\ runner.total_experiments + Len(strategies) <= MaxTotal
    /\ run' = [fn |-> "run_for_model", models |-> <<model_id>>, strategies |-> strategies,
               i |-> 1, j |-> 1, active |-> strategies # <<>>,
               model_results |-> <<>>, all_results |-> <<>>, log |-> <<>>]
    /\ resp' = NoResponse
    /\ UNCHANGED <<gen, last, ncalls, twin, distvars, probevars, runner>>

(* TRUE iff the process_response call wrote the code file and the          *)
(* metadata file                                                           *)
Saved(response) ==
    /\ response.called
    /\ \E a \in DOMAIN response.out.written : response.out.written[a].name = "<base>.py"
    /\ \E b \in DOMAIN response.out.written : response.out.written[b].name = "<base>.json"

(* The call's record after the experiment e at position (i, j): the        *)
(* strategy's entry of the model's dict, and at the model's last strategy  *)
(* the return of run_for_model and the model's entry in all_results        *)
AfterExperiment(r, e) ==
    LET model_id == r.models[r.i]
        strategy_name == r.strategies[r.j]
        entry == [model_id |-> model_id, strategy_name |-> strategy_name,
                  success |-> e.success, saved |-> Saved(e.response)]
        model_results == DictSet(r.model_results, strategy_name, e.success)
    IN IF r.j < Len(r.strategies)
       THEN [r EXCEPT !.j = @ + 1, !.model_results = model_results,
                      !.log = Append(@, entry)]
       ELSE [r EXCEPT !.i = @ + 1, !.j = 1,
                      !.active = r.i < Len(r.models),
                      !.model_results = IF r.i < Len(r.models) THEN <<>> ELSE model_results,
                      !.all_results = IF r.fn = "run_all"
                                      THEN DictSet(@, model_id, model_results) ELSE @,
                      !.log = Append(@, entry)]

(* Variant: the loops end at the first failed experiment *)
AttemptStopping(env) ==
    /\ run.active
    /\ \E e \in {RunSingleExperiment(
                     CountAttempt(runner, run.models[run.i], run.strategies[run.j]),
                     run.models[run.i], run.strategies[run.j], env)} :
          /\ runner' = e.stats
          /\ resp' = IF e.response.called THEN e.response ELSE resp
          /\ run' = IF e.success THEN AfterExperiment(run, e)
                    ELSE [AfterExperiment(run, e) EXCEPT !.active = FALSE]
    /\ UNCHANGED <<gen, last, ncalls, twin, distvars, probevars>>

(* One pass of the loop body of run_for_model: the experiment at position  *)
(* (i, j) of the running call, in the world env                            *)
Attempt(env) ==
    /\ run.active
    /\ \E e \in {RunSingleExperiment(
                     CountAttempt(runner, run.models[run.i], run.strategies[run.j]),
                     run.models[run.i], run.strategies[run.j], env)} :
          /\ runner' = e.stats
          /\ resp' = IF e.response.called THEN e.response ELSE resp
          /\ run' = AfterExperiment(run, e)
    /\ UNCHANGED <<gen, last, ncalls, twin, distvars, probevars>>

NextRun ==
    \/ \E a \in RunAllInputs : StartRunAll(a[1], a[2])
    \/ \E a \in RunForModelInputs : StartRunForModel(a[1], a[2])
    \/ \E env \in Envs : Attempt(env)

SpecRun == InitRun /\ [][NextRun]_vars

----------------------------------------------------------------------------
(* Vocabulary of the properties *)

Called == last.fn # "none"

(* K: the number of stratum combinations of a list of known names *)
RECURSIVE NumStrata(_)
NumStrata(stratify_by) ==
    IF stratify_by = <<>> THEN 1
    ELSE Len(AttributeMap[Head(stratify_by)]) * NumStrata(Tail(stratify_by))

NamesKnown(stratify_by) == Range(stratify_by) \subseteq DOMAIN PersonFields

HasDuplicates(stratify_by) ==
    \E i, j \in DOMAIN stratify_by : i # j /\ stratify_by[i] = stratify_by[j]

(* The arguments the contract calls valid: positive size, one or more      *)
(* known names, size at least the number of strata                         *)
ValidCall ==
    /\ Called
    /\ last.size > 0
    /\ last.stratify_by # <<>>
    /\ NamesKnown(last.stratify_by)
    /\ last.size >= NumStrata(last.stratify_by)

(* Number of persons of a list that carry the values of a stratum *)
CountInStratum(persons, stratum_spec) ==
    Cardinality({p \in DOMAIN persons :
                    \A k \in DOMAIN stratum_spec :
                        k \in DOMAIN persons[p] /\ persons[p][k] = stratum_spec[k]})

SizeErrors == {"ValueError: size must be positive", "ValueError: size below number of strata"}

ConfigurationErrors == {"ValueError: unknown attribute", "ValueError: no strata combinations"}

HardErrors == SizeErrors \cup ConfigurationErrors

----------------------------------------------------------------------------
(* C1: every generation call with valid arguments (positive size, known    *)
(* names, size >= K) returns a list of exactly `size` entities, with the   *)
(* realism flag on or off.                                                 *)
C1_ExactSize ==
    ValidCall =>
        /\ last.out.status = "return"
        /\ Len(last.out.persons) = last.size

(* C2: in the returned collection the stratum at enumeration index i holds *)
(* base+1 entities if i < remainder and base entities otherwise, where     *)
(* base = size div K and remainder = size mod K.                           *)
C2_Allocation ==
    (ValidCall /\ ~HasDuplicates(last.stratify_by)) =>
        LET K == NumStrata(last.stratify_by)
            base == last.size \div K
            remainder == last.size % K
        IN /\ last.out.status = "return"
           /\ \A i \in 0 .. (K - 1) :
                 CountInStratum(last.out.persons,
                                StratumSpec(last.stratify_by, last.out.strata[i + 1]))
                    = (IF i < remainder THEN base + 1 ELSE base)

C4_Raises ==
    Called =>
        /\ (last.size <= 0) =>
              /\ last.out.status = "raise"
              /\ last.out.err = "ValueError: size must be positive"
        /\ (last.size > 0 /\ ~NamesKnown(last.stratify_by)) =>
              /\ last.out.status = "raise"
              /\ last.out.err = "ValueError: unknown attribute"
        /\ (last.size > 0 /\ NamesKnown(last.stratify_by)
                /\ last.size < NumStrata(last.stratify_by)) =>
              /\ last.out.status = "raise"
              /\ last.out.err = "ValueError: size below number of strata"
        /\ (last.out.err \in HardErrors) =>
              /\ last.out.persons = <<>>
              /\ last.out.generated = 0

(* C4 witness: size 2 over two attributes with 3 x 2 = 6 strata *)
C4_Witness ==
    /\ Called
    /\ last.size = 2
    /\ Len(last.stratify_by) = 2
    /\ NamesKnown(last.stratify_by)
    /\ NumStrata(last.stratify_by) = 6
    /\ last.out.err = "ValueError: size below number of strata"

(* C5: a call with valid arguments and validate_realism = TRUE returns a   *)
(* collection in which no entity has an experience tier above the maximum  *)
(* of its age bracket.                                                     *)
C5_RealismHard ==
    (ValidCall /\ last.validate_realism) =>
        /\ last.out.status = "return"
        /\ \A p \in DOMAIN last.out.persons : ~ExceedsMaxExperience(last.out.persons[p])

(* C6: with the realism flag on, per-entity generation never raises and    *)
(* never drops a sample: no Person construction is rejected, and every     *)
(* entity the allocation asks for is generated.                            *)
C6_NeverRaises ==
    (ValidCall /\ last.validate_realism) =>
        /\ last.out.failed = <<>>
        /\ last.out.err # "ValidationError: Person"
        /\ last.out.generated = last.size

(* C7: the strata of a call are exactly the cartesian product of the value  *)
(* domains of the names in stratify_by, each combination once, in          *)
(* lexicographic order: first name most significant, values in declared    *)
(* order.  The right-hand side reads only stratify_by, so the list does    *)
(* not depend on the seed, the realism flag or earlier calls.              *)
C7_StrataProduct ==
    (Called /\ last.size > 0 /\ NamesKnown(last.stratify_by)) =>
        LET sb == last.stratify_by
            S == last.out.strata
            dom(j) == AttributeMap[sb[j]]
            pos(t, j) == IndexOf(dom(j), t[j])
            LexLess(t, u) ==
                \E j \in DOMAIN sb :
                    /\ \A m \in 1 .. (j - 1) : t[m] = u[m]
                    /\ pos(t, j) < pos(u, j)
            AllValues == UNION {Range(dom(j)) : j \in DOMAIN sb}
            Combos == {t \in [DOMAIN sb -> AllValues] : \A j \in DOMAIN sb : t[j] \in Range(dom(j))}
        IN /\ Range(S) = Combos
           /\ Len(S) = Cardinality(Combos)
           /\ \A i \in DOMAIN S : \A k \in DOMAIN S : i < k => LexLess(S[i], S[k])

(* C7 witness: two different attributes; the second one varies fastest *)
C7_Witness ==
    /\ Called
    /\ last.stratify_by = <<"gender", "parental_status">>
    /\ Len(last.out.strata) = 6
    /\ last.out.strata[2] = <<"Male", "Parent">>
    /\ last.out.strata[3] = <<"Female", "No Children">>

(* C8: a stratify_by list that repeats a name is rejected with a           *)
(* configuration error before anything is drawn or generated (stated for   *)
(* sizes that pass the size checks).                                       *)
C8_DuplicatesRejected ==
    (Called /\ last.size > 0 /\ NamesKnown(last.stratify_by)
        /\ HasDuplicates(last.stratify_by)
        /\ last.size >= NumStrata(last.stratify_by)) =>
        /\ last.out.status = "raise"
        /\ last.out.err \in ConfigurationErrors
        /\ last.out.rng = last.rng_before

(* C9: an empty stratify_by list is rejected with an error raised for the  *)
(* empty strata, before anything is drawn or generated.                    *)
C9_EmptyRejected ==
    (Called /\ last.size > 0 /\ last.stratify_by = <<>>) =>
        /\ last.out.status = "raise"
        /\ last.out.err \in ConfigurationErrors
        /\ last.out.rng = last.rng_before

(* C10: a call that fails with a hard error (size or configuration) has    *)
(* generated nothing and drawn nothing: the random state of the generator  *)
(* is the one the call found, so the next call starts from it.             *)
C10_HardErrorFrame ==
    [][(ncalls' = ncalls + 1 /\ last'.out.err \in HardErrors) =>
          /\ gen'.rng = gen.rng
          /\ last'.out.rng = last'.rng_before
          /\ last'.out.generated = 0
          /\ last'.out.failed = <<>>
          /\ last'.out.persons = <<>>]_vars

(* C10 witness: a hard error on an instance whose random state had already *)
(* advanced past its seed state, and is still where the failed call found  *)
(* it.                                                                     *)
C10_Witness ==
    /\ last.fn = "generate_stratified_sample"
    /\ last.out.err \in HardErrors
    /\ ~last.fresh
    /\ last.rng_before # RngSeed(gen.seed)
    /\ gen.rng = last.rng_before

----------------------------------------------------------------------------
(* Vocabulary of the properties of the distribution and validation calls   *)

(* The ten enum-typed fields that person.py declares *)
EnumFieldNames ==
    {"gender", "race", "age_range", "education_level", "experience_level",
     "industry_sector", "employment_type", "parental_status", "disability_status",
     "career_gap"}

ObservedValues(f) == {dataset[i][f] : i \in DOMAIN dataset}

CountOf(f, v) == Cardinality({i \in DOMAIN dataset : dataset[i][f] = v})

EqualCounts(f) ==
    \A v, w \in ObservedValues(f) : CountOf(f, v) = CountOf(f, w)

DistributionReturned == res.fn = "compute_distribution" /\ res.out.status = "return"

ValidationReturned == res.fn = "validate_stratification" /\ res.out.status = "return"

(* The sum of the fractions p[k], k in keys *)
RECURSIVE RatSumOver(_, _)
RatSumOver(p, keys) ==
    IF keys = {} THEN Rat(0, 1)
    ELSE LET k == CHOOSE x \in keys : TRUE
             rest == RatSumOver(p, keys \ {k})
         IN Rat(p[k].num * rest.den + rest.num * p[k].den, p[k].den * rest.den)

(* The tolerance verdict of attribute f, from the dataset: every           *)
(* |count / n - 1 / k| is at most tolerance, k the number of observed      *)
(* values                                                                  *)
DeviationsWithin(f, tolerance) ==
    LET k == Cardinality(ObservedValues(f))
        n == Len(dataset)
    IN \A v \in ObservedValues(f) :
          Abs(k * CountOf(f, v) - n) * tolerance.den <= tolerance.num * k * n

(* C11: generate_reference_dataset(size=108) with stratify_by omitted      *)
(* stratifies on gender, ethnicity and education_level, 36 strata, and     *)
(* returns a collection in which each gender has one third of the          *)
(* entities.                                                               *)
C11_DocumentedDefault ==
    (last.fn = "generate_reference_dataset" /\ last.omitted /\ last.size = EXAMPLE_SIZE) =>
        /\ last.stratify_by = <<"gender", "ethnicity", "education_level">>
        /\ last.out.status = "return"
        /\ Len(last.out.strata) = 36
        /\ Len(last.out.persons) = EXAMPLE_SIZE
        /\ \A g \in Range(Gender) :
              3 * Cardinality({i \in DOMAIN last.out.persons :
                                  last.out.persons[i].gender = g}) = EXAMPLE_SIZE

(* C12: compute_distribution and validate_stratification, in tolerance or  *)
(* chi-square mode, raise the empty-dataset error on an empty collection   *)
(* and produce no per-attribute entry.                                     *)
C12_EmptyRaises ==
    (res.fn # "none" /\ Len(dataset) = 0) =>
        /\ res.out.status = "raise"
        /\ res.out.err = "ValueError: empty dataset"
        /\ DOMAIN res.out.result = {}

(* C12 witness: a chi-square validation with the library present, asked    *)
(* about two attributes of an empty collection.                            *)
C12_Witness ==
    /\ res.fn = "validate_stratification"
    /\ res.use_chi_square /\ scipy
    /\ Len(res.stratify_by) = 2
    /\ Len(dataset) = 0
    /\ res.out.status = "raise"

(* C13: the result of compute_distribution on a non-empty collection has   *)
(* one entry for each of the ten enum-typed fields of Person and no other  *)
(* key: not the computed first_name, not only the stratified attributes.   *)
C13_AllEnumFields ==
    (res.fn = "compute_distribution" /\ Len(dataset) > 0) =>
        /\ res.out.status = "return"
        /\ DOMAIN res.out.result = EnumFieldNames
        /\ "first_name" \notin DOMAIN res.out.result

(* C13 witness: a distribution computed over a collection in which gender  *)
(* and parental status vary and the other eight fields do not.             *)
C13_Witness ==
    /\ DistributionReturned
    /\ Cardinality(ObservedValues("gender")) = 3
    /\ Cardinality(ObservedValues("parental_status")) = 2
    /\ Cardinality(ObservedValues("race")) = 1
    /\ "race" \in DOMAIN res.out.result

(* C14: every reported proportion is the number of entities with that      *)
(* value over the length of the collection, exactly the values that occur  *)
(* are listed, and the proportions of an attribute sum to 1.               *)
C14_Proportions ==
    DistributionReturned =>
        \A f \in DOMAIN res.out.result :
            LET p == res.out.result[f].proportions
            IN /\ DOMAIN p = ObservedValues(f)
               /\ \A v \in DOMAIN p : RatEq(p[v], Rat(CountOf(f, v), Len(dataset)))
               /\ RatEq(RatSumOver(p, DOMAIN p), Rat(1, 1))

(* C14 witness: three genders in unequal numbers, so the proportions are   *)
(* three different fractions.                                              *)
C14_Witness ==
    /\ DistributionReturned
    /\ Cardinality(ObservedValues("gender")) = 3
    /\ ~EqualCounts("gender")
    /\ Cardinality(DOMAIN res.out.result["gender"].proportions) = 3

(* C15 as stated: the coefficient of variation of an attribute is 0 if and *)
(* only if exactly one distinct value of it occurs in the collection.      *)
C15_ZeroIffSingleValue ==
    DistributionReturned =>
        \A f \in DOMAIN res.out.result :
            (res.out.result[f].balance_metrics.cv_squared.num = 0
                /\ res.out.result[f].balance_metrics.cv_squared.den # 0)
            <=> Cardinality(ObservedValues(f)) = 1

(* C15 amended: the coefficient of variation of an attribute is 0 if and   *)
(* only if all the values of it that occur, occur equally often; one       *)
(* distinct value is the case of a single count.                           *)
C15_ZeroIffEqualCounts ==
    DistributionReturned =>
        \A f \in DOMAIN res.out.result :
            (res.out.result[f].balance_metrics.cv_squared.num = 0
                /\ res.out.result[f].balance_metrics.cv_squared.den # 0)
            <=> EqualCounts(f)

(* C15 witness: race with a single value and gender with two values in     *)
(* equal numbers, both with coefficient 0.                                 *)
C15_Witness ==
    /\ DistributionReturned
    /\ Cardinality(ObservedValues("gender")) = 2
    /\ EqualCounts("gender")
    /\ res.out.result["gender"].balance_metrics.cv_squared.num = 0
    /\ Cardinality(ObservedValues("race")) = 1
    /\ res.out.result["race"].balance_metrics.cv_squared.num = 0

(* C16: the balanced flag of an attribute is true exactly when the         *)
(* population standard deviation of its proportions over their mean is     *)
(* strictly below 0.10; values in equal numbers give coefficient 0 and     *)
(* balanced.  With k values, counts c and n entities the coefficient       *)
(* squared is sum (k c - n)^2 / (k n^2).                                   *)
C16_BalancedIffCvBelowTenth ==
    DistributionReturned =>
        \A f \in DOMAIN res.out.result :
            LET k == Cardinality(ObservedValues(f))
                n == Len(dataset)
                sq == [v \in ObservedValues(f) |->
                          (k * CountOf(f, v) - n) * (k * CountOf(f, v) - n)]
                m == res.out.result[f].balance_metrics
            IN /\ m.is_balanced <=> (100 * SumValues(sq) < k * n * n)
               /\ RatEq(m.cv_squared, Rat(SumValues(sq), k * n * n))
               /\ EqualCounts(f) => (m.cv_squared.num = 0 /\ m.is_balanced)

(* C16 witness: two genders in the numbers 6 and 5, a coefficient of 1/11, *)
(* above 0 and below 0.10, reported balanced.                              *)
C16_Witness ==
    /\ DistributionReturned
    /\ Cardinality(ObservedValues("gender")) = 2
    /\ ~EqualCounts("gender")
    /\ res.out.result["gender"].balance_metrics.cv_squared.num > 0
    /\ res.out.result["gender"].balance_metrics.is_balanced

(* C17 as stated: every entry of the result reports the raw count of each  *)
(* value present, with the proportions, the coefficient of variation and   *)
(* the balanced flag.                                                      *)
C17_ReportsCounts ==
    DistributionReturned =>
        \A f \in DOMAIN res.out.result :
            /\ {"counts", "proportions", "balance_metrics"} \subseteq DOMAIN res.out.result[f]
            /\ DOMAIN res.out.result[f].counts = ObservedValues(f)
            /\ \A v \in ObservedValues(f) : res.out.result[f].counts[v] = CountOf(f, v)

(* C17 amended: every entry of the result reports the proportions of the   *)
(* values present and the balance metrics (coefficient of variation and    *)
(* balanced flag) and nothing else; the raw count of a value is not        *)
(* reported, it is the proportion times the length of the collection.      *)
C17_ReportsProportionsAndMetrics ==
    DistributionReturned =>
        \A f \in DOMAIN res.out.result :
            /\ DOMAIN res.out.result[f] = {"proportions", "balance_metrics"}
            /\ DOMAIN res.out.result[f].balance_metrics = {"cv_squared", "is_balanced"}
            /\ DOMAIN res.out.result[f].proportions = ObservedValues(f)
            /\ \A v \in ObservedValues(f) :
                  res.out.result[f].proportions[v].num * Len(dataset)
                      = CountOf(f, v) * res.out.result[f].proportions[v].den

(* C17 witness: an entry for gender over two genders, with its two         *)
(* proportions and its metrics.                                            *)
C17_Witness ==
    /\ DistributionReturned
    /\ Len(dataset) = 3
    /\ Cardinality(DOMAIN res.out.result["gender"].proportions) = 2
    /\ "balance_metrics" \in DOMAIN res.out.result["gender"]

(* C18: a distribution or validation call draws nothing from the random    *)
(* source and leaves the collection and the generator as they were; the    *)
(* same call repeated on the same collection returns the same result; and  *)
(* the first generation call of the instance returns what it returns on a  *)
(* newly seeded generator, whatever calls of the two were made before it.  *)
C18_Pure ==
    /\ [][(res' # res) =>
             /\ gen' = gen /\ dataset' = dataset /\ last' = last
             /\ (/\ res.fn = res'.fn
                 /\ res.stratify_by = res'.stratify_by
                 /\ res.tolerance = res'.tolerance
                 /\ res.use_chi_square = res'.use_chi_square) => res'.out = res.out]_vars
    /\ []((Called /\ last.fresh) =>
             last.out = GenerateStratifiedSample(RngSeed(last.seed), last.size,
                                                 last.stratify_by, last.validate_realism))

(* C18 witness: a generation call that drew from the random source, made   *)
(* as the first of its instance after a validation call on that instance.  *)
C18_Witness ==
    /\ Called /\ last.fresh
    /\ last.out.rng # last.rng_before
    /\ res.fn = "validate_stratification" /\ res.fresh
    /\ Len(dataset) > 0

(* C19: in tolerance mode every known attribute of the list gets expected  *)
(* proportion 1 / (number of values observed), is balanced exactly when    *)
(* every |proportion - expected| is at most the tolerance, and reports the *)
(* largest of these deviations; values in equal numbers are balanced with  *)
(* max_deviation 0.                                                        *)
C19_ToleranceMode ==
    (ValidationReturned /\ ~res.use_chi_square) =>
        \A j \in DOMAIN res.stratify_by :
            LET f == res.stratify_by[j]
                k == Cardinality(ObservedValues(f))
                n == Len(dataset)
                e == res.out.result[f]
            IN f \in EnumFieldNames =>
                  /\ RatEq(e.expected_proportion, Rat(1, k))
                  /\ e.is_balanced <=> DeviationsWithin(f, res.tolerance)
                  /\ \E v \in ObservedValues(f) :
                        RatEq(e.max_deviation, Rat(Abs(k * CountOf(f, v) - n), k * n))
                  /\ \A v \in ObservedValues(f) :
                        RatLeq(Rat(Abs(k * CountOf(f, v) - n), k * n), e.max_deviation)
                  /\ EqualCounts(f) => (e.is_balanced /\ e.max_deviation.num = 0)

(* C19 witness: tolerance 0 and two of the three genders, in equal         *)
(* numbers: expected proportion 1/2 and max_deviation 0, on the boundary,  *)
(* balanced.                                                               *)
C19_Witness ==
    /\ ValidationReturned /\ ~res.use_chi_square
    /\ res.tolerance = Rat(0, 1)
    /\ res.stratify_by = <<"parental_status", "gender">>
    /\ Cardinality(ObservedValues("gender")) = 2
    /\ EqualCounts("gender")
    /\ res.out.result["gender"].is_balanced
    /\ RatEq(res.out.result["gender"].expected_proportion, Rat(1, 2))
    /\ res.out.result["gender"].max_deviation.num = 0

(* C20: with use_chi_square true and the statistics library missing the    *)
(* call returns, every known attribute of the list has the entry of the    *)
(* tolerance-mode call with the same tolerance, and the fallback is logged *)
(* once an attribute needed the library.                                   *)
C20_ChiSquareFallback ==
    (res.fn = "validate_stratification" /\ res.use_chi_square /\ ~scipy /\ Len(dataset) > 0) =>
        /\ res.out.status = "return"
        /\ \A j \in DOMAIN res.stratify_by :
              res.stratify_by[j] \in EnumFieldNames =>
                 /\ res.stratify_by[j] \in DOMAIN res.out.result
                 /\ res.out.result[res.stratify_by[j]]
                       = ToleranceEntry(
                             Proportions(CountValues(dataset, res.stratify_by[j])),
                             res.tolerance)
                 /\ res.out.result[res.stratify_by[j]]
                       = ValidateStratification(dataset, res.stratify_by, res.tolerance,
                                                FALSE, scipy).result[res.stratify_by[j]]
        /\ res.out.fallback_logged
              <=> (\E j \in DOMAIN res.stratify_by : res.stratify_by[j] \in EnumFieldNames)

(* C20 witness: a chi-square call without the library over the default     *)
(* strata, whose known names stand before and after the unknown one.       *)
C20_Witness ==
    /\ res.fn = "validate_stratification" /\ res.use_chi_square /\ ~scipy
    /\ res.stratify_by = DEFAULT_STRATA
    /\ Len(dataset) > 1
    /\ res.out.fallback_logged
    /\ "max_deviation" \in DOMAIN res.out.result["disability_status"]

(* C21: a listed name that is no enum field of Person gets an entry with   *)
(* is_balanced false and an error marker; the call returns, and every      *)
(* other listed attribute, before or after the bad name, has the entry it  *)
(* has when it is validated alone.                                         *)
C21_UnknownNameMarked ==
    (res.fn = "validate_stratification" /\ Len(dataset) > 0) =>
        /\ res.out.status = "return"
        /\ \A j \in DOMAIN res.stratify_by :
              LET f == res.stratify_by[j]
              IN /\ f \in DOMAIN res.out.result
                 /\ f \notin EnumFieldNames =>
                       /\ res.out.result[f].is_balanced = FALSE
                       /\ "error" \in DOMAIN res.out.result[f]
                 /\ f \in EnumFieldNames =>
                       /\ "error" \notin DOMAIN res.out.result[f]
                       /\ res.out.result[f]
                             = ValidateStratification(dataset, <<f>>, res.tolerance,
                                                      res.use_chi_square, scipy).result[f]

(* C21 witness: the default strata validated with the library present:     *)
(* ethnicity is marked, gender before it and disability status after it    *)
(* have their chi-square entries.                                          *)
C21_Witness ==
    /\ ValidationReturned
    /\ res.stratify_by = DEFAULT_STRATA
    /\ res.use_chi_square /\ scipy
    /\ Cardinality(ObservedValues("gender")) = 3
    /\ "error" \in DOMAIN res.out.result["ethnicity"]
    /\ "chi2_statistic" \in DOMAIN res.out.result["gender"]
    /\ "chi2_statistic" \in DOMAIN res.out.result["disability_status"]

----------------------------------------------------------------------------
(* The strata of a call's arguments, computed from the declared domains *)
StrataOf(stratify_by) == Product(GetStrataEnums(stratify_by))

(* TRUE iff person p carries the values of the c-th stratum of the call *)
InStratum(p, stratify_by, c) ==
    \A k \in DOMAIN stratify_by :
        /\ stratify_by[k] \in DOMAIN p
        /\ p[stratify_by[k]] = StrataOf(stratify_by)[c][k]

(* C22: every valid call produces entities, and every entity it produces   *)
(* carries the values of one stratum of the call on the stratify_by        *)
(* attributes and a value of the declared domain on every attribute, with  *)
(* the realism flag on or off.                                             *)
C22_PinnedValues ==
    (ValidCall /\ ~HasDuplicates(last.stratify_by)) =>
        /\ last.out.status = "return"
        /\ last.out.persons # <<>>
        /\ \A i \in DOMAIN last.out.persons :
              /\ \E c \in DOMAIN StrataOf(last.stratify_by) :
                    InStratum(last.out.persons[i], last.stratify_by, c)
              /\ \A f \in DOMAIN PersonFields :
                    /\ f \in DOMAIN last.out.persons[i]
                    /\ last.out.persons[i][f] \in Range(PersonFields[f])

(* C24: a valid call shuffles once, after the entities of all strata have  *)
(* been generated: all `size` entities are generated before the call       *)
(* ends, the returned sequence has that length, and every stratum keeps    *)
(* in it the count it was allocated.                                       *)
C24_ShuffledOnce ==
    (ValidCall /\ ~HasDuplicates(last.stratify_by)) =>
        /\ last.out.status = "return"
        /\ last.out.generated = last.size
        /\ Len(last.out.persons) = last.out.generated
        /\ \A c \in DOMAIN StrataOf(last.stratify_by) :
              Cardinality({i \in DOMAIN last.out.persons :
                              InStratum(last.out.persons[i], last.stratify_by, c)})
                 = NSamples(c - 1, last.size, NumStrata(last.stratify_by))

(* C26: a generation call with valid arguments never fails while           *)
(* constructing an entity: the only errors of a generation call are the    *)
(* size and configuration errors.                                          *)
C26_ConstructionNeverFails ==
    Called =>
        \/ last.out.status = "return"
        \/ last.out.status = "raise" /\ last.out.err \in HardErrors

(* C27: a valid call whose size is a multiple of the stratum count K       *)
(* returns a collection in which every stratify_by attribute has equal     *)
(* counts over all values of its declared domain, so that                  *)
(* compute_distribution reports CV = 0 and balanced for it and tolerance   *)
(* mode validate_stratification reports is_balanced with max_deviation 0   *)
(* at tolerance 0.                                                         *)
C27_MultipleOfKBalanced ==
    (/\ ValidCall
     /\ ~HasDuplicates(last.stratify_by)
     /\ last.size % NumStrata(last.stratify_by) = 0) =>
        /\ last.out.status = "return"
        /\ last.out.persons # <<>>
        /\ ComputeDistribution(last.out.persons).status = "return"
        /\ \A k \in DOMAIN last.stratify_by :
              LET f == last.stratify_by[k]
                  d == ComputeDistribution(last.out.persons).result[f]
                  v == ValidateStratification(last.out.persons, last.stratify_by,
                                              Rat(0, 1), FALSE, FALSE).result[f]
              IN /\ DOMAIN d.proportions = Range(PersonFields[f])
                 /\ d.balance_metrics.cv_squared.num = 0
                 /\ d.balance_metrics.is_balanced
                 /\ v.is_balanced
                 /\ v.max_deviation.num = 0

----------------------------------------------------------------------------
(* C23: _is_realistic accepts an entity iff its experience tier is not     *)
(* above the maximum of its age bracket (18-24: 0-5 years only; 25-34: up  *)
(* to 6-15 years; older: any tier) and, if it is 18-24 with an Advanced    *)
(* Degree, a draw from the generator's random source is at most 0.1; the   *)
(* draw is taken only for an 18-24 Advanced Degree entity that passed the  *)
(* experience check, and no other evaluation advances the random stream.   *)
C23_Realistic ==
    probe.calls > 0 =>
        LET p == probe.person
            within == CASE p.age_range = "18-24" -> p.experience_level = "0-5 years"
                        [] p.age_range = "25-34"
                              -> p.experience_level \in {"0-5 years", "6-15 years"}
                        [] OTHER -> TRUE
            young_advanced == p.age_range = "18-24" /\ p.education_level = "Advanced Degree"
            drawn == RngStep(probe.rng_before)
        IN /\ probe.out.val = (within /\ (young_advanced => 10 * drawn <= 65537))
           /\ probe.out.rng = (IF within /\ young_advanced THEN drawn ELSE probe.rng_before)
           /\ gen.rng = probe.out.rng

(* An 18-24 entity with 0-5 years and an Advanced Degree, evaluated twice: *)
(* the second draw rejects it, after a first evaluation moved the stream   *)
C23_Witness ==
    /\ probe.calls = MaxProbes
    /\ probe.person.age_range = "18-24"
    /\ probe.person.experience_level = "0-5 years"
    /\ probe.person.education_level = "Advanced Degree"
    /\ probe.out.val = FALSE
    /\ probe.out.rng # probe.rng_before

----------------------------------------------------------------------------
----------------------------------------------------------------------------
(* Vocabulary of the runner properties *)

(* The call of the runner has returned *)
RunReturned == run.fn # "none" /\ ~run.active

NoRepeats(l) == \A a, b \in DOMAIN l : l[a] = l[b] => a = b

(* The experiments of the call for the pair (m, s) *)
AttemptsOf(m, s) ==
    {k \in DOMAIN run.log : run.log[k].model_id = m /\ run.log[k].strategy_name = s}

(* Every pair of the cross product of the call's lists is attempted once,  *)
(* model by model, whatever the outcomes, and the returned map is true     *)
(* exactly for the pairs whose code and metadata were saved                *)
CrossProductRun ==
    /\ Len(run.log) = Len(run.models) * Len(run.strategies)
    /\ \A k \in DOMAIN run.log :
          /\ run.log[k].model_id = run.models[((k - 1) \div Len(run.strategies)) + 1]
          /\ run.log[k].strategy_name = run.strategies[((k - 1) % Len(run.strategies)) + 1]
    /\ DOMAIN run.all_results = Range(run.models)
    /\ \A m \in Range(run.models) :
          /\ DOMAIN run.all_results[m] = Range(run.strategies)
          /\ \A s \in Range(run.strategies) :
                /\ Cardinality(AttemptsOf(m, s)) = 1
                /\ run.all_results[m][s] \in BOOLEAN
                /\ run.all_results[m][s] = (\E k \in AttemptsOf(m, s) : run.log[k].saved)

(* C28: after any sequence of run_for_model and run_all calls,             *)
(* total_experiments = successful + failed_validation + failed_generation  *)
(* (every attempted pair is counted in exactly one outcome counter).       *)
C28_CountersSum ==
    ~run.active =>
        runner.total_experiments
            = runner.successful + runner.failed_validation + runner.failed_generation

(* C29 as stated: run_all attempts every pair of the cross product of its  *)
(* lists exactly once, in model-major order, whatever fails, and returns a *)
(* map with a boolean for every pair, true exactly for the pairs whose     *)
(* code and metadata were saved.                                           *)
C29_CrossProduct ==
    (RunReturned /\ run.fn = "run_all") => CrossProductRun

(* C29 amended: the same, for lists of models and strategies without       *)
(* repeated entries.                                                       *)
C29_CrossProductNoRepeats ==
    (RunReturned /\ run.fn = "run_all" /\ NoRepeats(run.models) /\ NoRepeats(run.strategies))
        => CrossProductRun

(* A returned run_all over two models and two strategies whose first       *)
(* experiment failed and whose last was saved                              *)
C29_Witness ==
    /\ RunReturned
    /\ run.fn = "run_all"
    /\ NoRepeats(run.models) /\ NoRepeats(run.strategies)
    /\ Len(run.log) = 4
    /\ ~run.log[1].success
    /\ run.log[4].success /\ run.log[4].saved
    /\ run.all_results[run.models[2]][run.strategies[2]]
    /\ ~run.all_results[run.models[1]][run.strategies[1]]

(* C30: for every response given to process_response, with a file system   *)
(* that takes the writes, exactly one code file is written, <base>.py if   *)
(* the stripped content parses and <base>_INVALID.txt otherwise, with one  *)
(* metadata file <base>.json whose validation.passed tells whether it      *)
(* parsed; CodeValidationError is raised iff it did not parse, after both  *)
(* files were written.                                                     *)
C30_ArtifactsAndError ==
    (resp.called /\ resp.io = "ok") =>
        LET parsed == AstParse(Strip(resp.content)) = "ok"
            written == resp.out.written
        IN /\ Len(written) = 2
           /\ written[1].name = (IF parsed THEN "<base>.py" ELSE "<base>_INVALID.txt")
           /\ written[1].code = Strip(resp.content)
           /\ written[2].name = "<base>.json"
           /\ written[2].passed = parsed
           /\ (resp.out.raised = "CodeValidationError") = ~parsed
           /\ parsed => resp.out.raised = "none"

============================================================================
